---- MODULE Spec2Model ----
(***************************************************************************)
(* Model of the comic job pipeline of comicbook-api:                       *)
(*   - the job manifest (app/lib/jobs.py),                                 *)
(*   - the three job endpoints enqueue_comic_job, worker_process and       *)
(*     stop_comic_job (app/features/pages/router.py),                      *)
(*   - the chained page renderer render_pages_chained                      *)
(*     (app/features/pages/service.py),                                    *)
(*   - the calls that write the entity registry lookbook.json:             *)
(*     seed_from_cover (app/features/lookbook_seed/service.py),            *)
(*     generate_ref_assets (app/features/lookbook_ref_assets/service.py)   *)
(*     and the script delta merge (app/features/full_script/router.py).    *)
(*                                                                         *)
(* One job is modelled.  The server runs several gunicorn worker           *)
(* processes on one job directory (gunicorn_conf.py), so a stop request    *)
(* and an enqueue request interleave with a delivery at the granularity of *)
(* manifest file operations and of the blocking network calls (image       *)
(* generation, upload).  The task queue hands the job's task to            *)
(* worker_process one delivery at a time, possibly more than once.         *)
(*                                                                         *)
(* Failures of the image generator and of storage uploads are              *)
(* nondeterministic outcomes of the steps that call them.                  *)
(***************************************************************************)
EXTENDS Integers, FiniteSets, Sequences, TLC

\* ------------------------------------------------------------------ bounds
NPages == 2          \* len(req.pages) of the modelled job
MaxDeliveries == 2   \* deliveries of the job's task (at-least-once queue)
MaxStops == 1        \* calls of stop_comic_job
MaxEnqueues == 1     \* calls of enqueue_comic_job for this job id
MaxSeedIds == 2      \* ids a seed request lists, over its three lists
MaxTypes == 1        \* asset types a generate request names for its id
MaxSeeds == 1        \* seed requests on the job (each may be sent twice)
MaxGens == 2         \* generate_ref_assets calls on the job
MaxDeltas == 1       \* script delta merges on the job
MaxListed == 2       \* types a generate_ref_assets request names for an id
MaxCleanIds == 2     \* ids a clean request lists
ScriptPages == 1     \* pages of a generated script
PanelsPerPage == 2   \* panels of a script page
MaxMentions == 1     \* ids in one characters list of a page or panel
LegacyPrompts == 3   \* prompts of a generate_pages call
MaxWorkers == 2      \* max_workers of a generate_pages call

\* --------------------------------------------------------- program constants
Retries == 3                    \* service.py: retries = 3
LegacyRetries == 3              \* main.py: generate_page retries default
PrunePagesAfterFinal == TRUE    \* config.py: PRUNE_PAGES_AFTER_FINAL default

Pages == 1..NPages
\* One lookbook entity per page plus the shared entity 1: page p references
\* the entities {1, p}.
Entities == Pages

\* _collect_page_ids: the union of the ids a page and its panels reference.
PageIds(p) == {1, p}

\* ---------------------------------------------------------------- manifest
\* A page entry of manifest["pages"]; "none" = the key is absent.
NoEntry ==
  [status |-> "none", uploaded |-> "unset", upload_error |-> FALSE,
   last_error |-> 0, ids |-> {}]

\* load_manifest of a missing file: {"pages": {}, "final": None}
EmptyManifest ==
  [exists |-> FALSE, pages |-> [p \in Pages |-> NoEntry], final |-> "null",
   cancelled |-> FALSE, task_name |-> FALSE]

\* seed_manifest_pending: a fresh dict with every page pending, final None
SeededManifest ==
  [exists |-> TRUE,
   pages |-> [p \in Pages |-> [NoEntry EXCEPT !.status = "pending"]],
   final |-> "null", cancelled |-> FALSE, task_name |-> FALSE]

\* mark_page_status: load, set status, entry.update(meta), save.
mark_page_status_DropsMeta(mf, p, st, meta) ==
  [mf EXCEPT !.exists = TRUE, !.pages[p] = [status |-> st] @@ mf.pages[p]]
mark_page_status(mf, p, st, meta) ==
  [mf EXCEPT !.exists = TRUE,
             !.pages[p] = [status |-> st] @@ meta @@ mf.pages[p]]

\* set_cancelled: load, mf["cancelled"] = True, save.
set_cancelled(mf) == [mf EXCEPT !.exists = TRUE, !.cancelled = TRUE]

\* set_task_name: load, mf["task_name"] = name, save.
set_task_name(mf) == [mf EXCEPT !.exists = TRUE, !.task_name = TRUE]

\* ---------------------------------------------------------------- lookbook
\* Entity states: "absent" (id not in lookbook.json), "norefs" (present with
\* no reference asset), "hasrefs" (at least one reference asset).
EntityStates == {"absent", "norefs", "hasrefs"}

\* _ensure_ref_assets_for_ids, first loop: ids not in the index.
NotFound_Forgotten(lb, ids) == {}
NotFound(lb, ids) == {e \in ids : lb[e] = "absent"}

\* _ensure_ref_assets_for_ids, second loop: present ids with no ref assets.
NeedGen(lb, ids) == {e \in ids : lb[e] = "norefs"}

\* _ensure_ref_assets_for_ids, final verify on the reloaded lookbook.
NoRefAssets(lb, ids) == {e \in ids : lb[e] = "norefs"}

\* File names the renderer handles: the cover, page-k.png, cached entity refs.
CoverRef == <<"cover", 0>>
PageFile(k) == <<"page", k>>
EntityRef(e) == <<"ref", e>>

\* _collect_ref_paths_for_slice: the cached lookbook reference images of the
\* page's entities (files under _ref_cache).
LookbookRefPaths(ids) == {EntityRef(e) : e \in ids}

\* The locals of a worker_process invocation that has not started.
IdleLocals ==
  [wpc |-> "idle", wmf |-> EmptyManifest, page_no |-> 1, attempt |-> 1,
   prev_ref |-> CoverRef, last_error |-> 0, image_paths_to_send |-> {},
   sent |-> {}]

\* --------------------------------------------------------- entity registry
\* The registry document lookbook.json: three lists of entities, each with
\* an id, a name, the "notes" entry of its visual canon, its reference
\* assets (a list of [type, ref]) and created_from; and the style profile's
\* user_theme.  "" stands for an empty or missing string.
RegIds == {"char_a", "loc_b"}
AssetTypes == {"cover", "portrait", "turnaround", "wide", "detail"}
ListNames == {"characters", "locations", "props"}

\* LookbookDoc(): the three entity lists, empty.
EmptyLookbook ==
  [characters |-> << >>, locations |-> << >>, props |-> << >>,
   user_theme |-> ""]

\* _detect_kind: the kind an id's prefix names (no modelled id starts with
\* prop_).
DetectKind(id) ==
  CASE id = "char_a" -> "character"
    [] id = "loc_b" -> "location"
    [] OTHER -> "unknown"

\* The kind of entity a list of the document holds.
KindOfList(l) ==
  CASE l = "characters" -> "character"
    [] l = "locations" -> "location"
    [] l = "props" -> "prop"

\* DEFAULT_TYPES: the asset types generated for a kind when none are named.
DEFAULT_TYPES(kind) ==
  CASE kind = "character" -> <<"portrait", "turnaround">>
    [] kind = "location" -> <<"wide">>
    [] kind = "prop" -> <<"detail">>
    [] OTHER -> << >>

\* _get_by_id: the position of the first entity of lst with this id, else 0.
GetById(lst, id) ==
  IF \E i \in 1..Len(lst) : lst[i].id = id
    THEN CHOOSE i \in 1..Len(lst) :
           lst[i].id = id /\ \A j \in 1..(i - 1) : lst[j].id # id
    ELSE 0

\* _has_type: some asset of the list has type t.
HasType(assets, t) == \E i \in 1..Len(assets) : assets[i].type = t

SeqsUpTo(S, n) == UNION {[1..k -> S] : k \in 0..n}

\* SeedFromCoverRequest: the three id lists, the cover reference, whether
\* hints and notes are given for the ids, the user theme.  A request comes
\* bare or with all three of hints, notes and theme.
\* The ids of list l in a sequence of <<list, id>> pairs, in order.
RECURSIVE IdsOf(_, _)
IdsOf(s, l) ==
  IF s = << >> THEN << >>
  ELSE (IF Head(s)[1] = l THEN <<Head(s)[2]>> ELSE << >>) \o IdsOf(Tail(s), l)
InitialIds ==
  {[characters |-> IdsOf(s, "characters"), locations |-> IdsOf(s, "locations"),
    props |-> IdsOf(s, "props")] : s \in SeqsUpTo(ListNames \X RegIds, MaxSeedIds)}
SeedRequests ==
  {[characters |-> x.characters, locations |-> x.locations, props |-> x.props,
    cover |-> c, hinted |-> d, noted |-> d,
    user_theme |-> IF d THEN "theme1" ELSE ""] :
     x \in InitialIds, c \in {"", "cover1"}, d \in BOOLEAN}

\* No seed request: the value of lastSeed after another kind of call.
NoRequest ==
  [characters |-> << >>, locations |-> << >>, props |-> << >>,
   cover |-> "n/a", hinted |-> FALSE, noted |-> FALSE, user_theme |-> ""]

\* _canon_for: the notes entry after merging the request's note.
CanonFor(existing_notes, q) ==
  IF q.noted THEN "note"
  ELSE IF existing_notes = "" THEN "seeded" ELSE existing_notes

\* seed_from_cover, one iteration of a list's loop: update the entity with
\* this id in place (the cover asset is appended only when it has none), or
\* append a new entity.
SeedEntity_AlwaysAppendsCover(lst, id, q) ==
  LET i == GetById(lst, id)
      name == IF q.hinted THEN "hint" ELSE "pretty"
      cover_ref == [type |-> "cover", ref |-> q.cover]
      created_from == IF q.cover # "" THEN "cover_v1" ELSE "cover_script_v1"
  IN IF i # 0
       THEN [lst EXCEPT ![i] =
               [@ EXCEPT
                  !.name = IF @ # "" THEN @ ELSE name,
                  !.notes = CanonFor(@, q),
                  !.reference_assets =
                     IF q.cover # "" THEN Append(@, cover_ref) ELSE @,
                  !.created_from = IF @ # "" THEN @ ELSE created_from]]
       ELSE Append(lst, [id |-> id, name |-> name,
                         notes |-> CanonFor("", q),
                         reference_assets |->
                           IF q.cover # "" THEN <<cover_ref>> ELSE << >>,
                         created_from |-> created_from])
SeedEntity(lst, id, q) ==
  LET i == GetById(lst, id)
      name == IF q.hinted THEN "hint" ELSE "pretty"
      cover_ref == [type |-> "cover", ref |-> q.cover]
      created_from == IF q.cover # "" THEN "cover_v1" ELSE "cover_script_v1"
  IN IF i # 0
       THEN [lst EXCEPT ![i] =
               [@ EXCEPT
                  !.name = IF @ # "" THEN @ ELSE name,
                  !.notes = CanonFor(@, q),
                  !.reference_assets =
                     IF q.cover # "" /\ ~HasType(@, "cover")
                       THEN Append(@, cover_ref) ELSE @,
                  !.created_from = IF @ # "" THEN @ ELSE created_from]]
       ELSE Append(lst, [id |-> id, name |-> name,
                         notes |-> CanonFor("", q),
                         reference_assets |->
                           IF q.cover # "" THEN <<cover_ref>> ELSE << >>,
                         created_from |-> created_from])

\* seed_from_cover, the loop over one id list of the request.
RECURSIVE SeedList(_, _, _)
SeedList(lst, ids, q) ==
  IF ids = << >> THEN lst
  ELSE SeedList(SeedEntity(lst, Head(ids), q), Tail(ids), q)

\* seed_from_cover: load, set the theme when given, run the three loops, save.
seed_from_cover(r, q) ==
  [characters |-> SeedList(r.characters, q.characters, q),
   locations |-> SeedList(r.locations, q.locations, q),
   props |-> SeedList(r.props, q.props, q),
   user_theme |-> IF q.user_theme # "" THEN q.user_theme ELSE r.user_theme]

\* _apply_delta_to_lookbook, one list: append an entity without reference
\* assets for each id the list does not hold yet.
RECURSIVE DeltaList(_, _)
DeltaList(lst, ids) ==
  IF ids = << >> THEN lst
  ELSE DeltaList(IF GetById(lst, Head(ids)) # 0 THEN lst
                 ELSE Append(lst, [id |-> Head(ids), name |-> "script",
                                   notes |-> "stub",
                                   reference_assets |-> << >>,
                                   created_from |-> "script_v1"]),
                 Tail(ids))

\* _apply_delta_to_lookbook: the three lists of the delta in turn.
apply_delta_to_lookbook(r, delta) ==
  [r EXCEPT !.characters = DeltaList(@, delta.characters_to_add),
            !.locations = DeltaList(@, delta.locations_to_add),
            !.props = DeltaList(@, delta.props_to_add)]

\* LookbookDelta as the script generator's schema shapes it: each list holds
\* ids of its own prefix.
Deltas ==
  [characters_to_add : {<< >>, <<"char_a">>},
   locations_to_add : {<< >>, <<"loc_b">>},
   props_to_add : {<< >>}]

\* generate_ref_assets, idx: the list whose entity an id resolves to (a later
\* list of the dict literal wins), "" when the id is in none.
IdxList(r, id) ==
  IF GetById(r.props, id) # 0 THEN "props"
  ELSE IF GetById(r.locations, id) # 0 THEN "locations"
  ELSE IF GetById(r.characters, id) # 0 THEN "characters"
  ELSE ""

\* _types_for_id: the types named for the id, else the kind's defaults.
TypesForId(kind, types) == IF types # << >> THEN types ELSE DEFAULT_TYPES(kind)

\* want_types.sort for a character: portrait, turnaround, then the others
\* in their given order (a stable sort).
TypeOrder(t) ==
  CASE t = "portrait" -> 0 [] t = "turnaround" -> 1 [] OTHER -> 99
SortTypes(w) ==
  SelectSeq(w, LAMBDA t : TypeOrder(t) = 0)
    \o SelectSeq(w, LAMBDA t : TypeOrder(t) = 1)
    \o SelectSeq(w, LAMBDA t : TypeOrder(t) = 99)

\* generate_ref_assets, a successful generation of type t: the assets of
\* that type are dropped and the new asset is appended.
ReplaceAsset_Appends(assets, t) ==
  assets \o <<[type |-> t, ref |-> "generated"]>>
ReplaceAsset(assets, t) ==
  SelectSeq(assets, LAMBDA a : a.type # t)
    \o <<[type |-> t, ref |-> "generated"]>>

\* generate_ref_assets, the loop over want_types from position k: a type the
\* entity has is skipped unless force or the request names it; a generation
\* that fails (k not in ok) leaves the assets as they are.  Returns the
\* assets, the types that generated and, in call order, the types for which
\* the image call was made.
RECURSIVE GenTypes(_, _, _, _, _)
GenTypes(assets, want, k, g, ok) ==
  IF k > Len(want) THEN [assets |-> assets, done |-> {}, calls |-> << >>]
  ELSE LET t == want[k]
           already == HasType(assets, t)
           will_overwrite ==
             g.force \/ \E i \in 1..Len(g.types) : g.types[i] = t
       IN IF already /\ ~will_overwrite
            THEN GenTypes(assets, want, k + 1, g, ok)
            ELSE IF k \notin ok
              THEN LET rest == GenTypes(assets, want, k + 1, g, ok)
                   IN [rest EXCEPT !.calls = <<t>> \o @]
              ELSE LET rest == GenTypes(ReplaceAsset(assets, t), want, k + 1,
                                        g, ok)
                   IN [rest EXCEPT !.done = @ \cup {t},
                                   !.calls = <<t>> \o @]

\* GenerateRefAssetsRequest for one id: force and the types named for it.
ExplicitTypes == {"portrait", "cover"}
GenRequests ==
  [id : RegIds, force : BOOLEAN, types : SeqsUpTo(ExplicitTypes, MaxTypes)]

\* generate_ref_assets: resolve the id, generate its wanted types, save.
WantTypes_Unsorted(l, g) == TypesForId(KindOfList(l), g.types)
WantTypes(l, g) ==
  LET w == TypesForId(KindOfList(l), g.types)
  IN IF l = "characters" THEN SortTypes(w) ELSE w

\* A request that names up to MaxListed types for its id, in any order.
ListedTypes == {"portrait", "turnaround"}
ListedRequests ==
  [id : RegIds, force : BOOLEAN, types : SeqsUpTo(ListedTypes, MaxListed)]

\* CleanAssetsRequest: the ids in request order, the types named for them
\* (one list, used for every id of the request) and the five flags.
CleanTypeLists == {<< >>, <<"*">>, <<"portrait">>}
CleanRequests ==
  [ids : SeqsUpTo(RegIds, MaxCleanIds) \ {<< >>},
   types : CleanTypeLists,
   include_cover : BOOLEAN, delete_local : BOOLEAN, delete_gcs : BOOLEAN,
   dry_run : BOOLEAN, prune_empty_entities : BOOLEAN]
NoClean ==
  [ids |-> << >>, types |-> << >>, include_cover |-> FALSE,
   delete_local |-> FALSE, delete_gcs |-> FALSE, dry_run |-> FALSE,
   prune_empty_entities |-> FALSE]

\* _entity_by_id: the first list that holds the id, characters first.
EntityById(r, id) ==
  IF GetById(r.characters, id) # 0 THEN "characters"
  ELSE IF GetById(r.locations, id) # 0 THEN "locations"
  ELSE IF GetById(r.props, id) # 0 THEN "props"
  ELSE ""

\* ALL_ASSET_TYPES, what "*" expands to.
ALL_ASSET_TYPES == {"portrait", "turnaround", "wide", "detail", "cover"}

\* clean_lookbook_assets, desired_types: "*" names every type; cover is
\* dropped unless include_cover.
DesiredTypes(q) ==
  LET named == {q.types[k] : k \in 1..Len(q.types)}
      all == IF "*" \in named THEN ALL_ASSET_TYPES ELSE named
  IN IF q.include_cover THEN all ELSE all \ {"cover"}

\* _remove_entity: delete the entity at position i of list l.
RemoveEntity(r, l, i) ==
  [r EXCEPT ![l] = SubSeq(@, 1, i - 1) \o SubSeq(@, i + 1, Len(@))]

\* _delete_local_files: the image files of the id for the given types.
\* _delete_gcs_objects deletes nothing: the helpers it imports from
\* app.lib.gcs_inventory do not exist, and it then skips silently.
DeleteLocalFiles(fs, id, types) == fs \ {<<id, t>> : t \in types}
DeleteGcsObjects(os, id, types) == os

\* clean_lookbook_assets, one pass of the loop over req.ids.  st holds the
\* document, the local files, the bucket objects and what was reported.
CleanOne_DryRunDeletes(st, id, q) ==
  LET l == EntityById(st.doc, id)
      desired == DesiredTypes(q)
  IN IF l = "" \/ q.types = << >> \/ desired = {} THEN st
     ELSE [st EXCEPT !.files = DeleteLocalFiles(@, id, desired)]
CleanOne(st, id, q) ==
  LET l == EntityById(st.doc, id)
      desired == DesiredTypes(q)
  IN IF l = "" \/ q.types = << >> \/ desired = {} THEN st
     ELSE LET i == GetById(st.doc[l], id)
              ras == st.doc[l][i].reference_assets
              existing == {ras[k].type : k \in 1..Len(ras)}
              to_remove == desired \cap existing
              new_assets == SelectSeq(ras, LAMBDA a : a.type \notin to_remove)
              would == q.prune_empty_entities /\ Len(new_assets) = 0
              pruned == q.prune_empty_entities /\ Len(ras) = 0
          IN IF q.dry_run
               THEN [st EXCEPT !.would = IF would THEN @ \cup {id} ELSE @]
               ELSE [doc |-> IF pruned THEN RemoveEntity(st.doc, l, i)
                             ELSE [st.doc EXCEPT
                                     ![l][i].reference_assets = new_assets],
                     files |-> IF q.delete_local
                                 THEN DeleteLocalFiles(st.files, id, desired)
                                 ELSE st.files,
                     objects |-> IF q.delete_gcs
                                   THEN DeleteGcsObjects(st.objects, id,
                                                         desired)
                                   ELSE st.objects,
                     would |-> st.would,
                     removed |-> IF pruned THEN st.removed \cup {id}
                                 ELSE st.removed]

\* clean_lookbook_assets: the loop over req.ids from position k.
RECURSIVE CleanFrom(_, _, _)
CleanFrom(st, q, k) ==
  IF k > Len(q.ids) THEN st
  ELSE CleanFrom(CleanOne(st, q.ids[k], q), q, k + 1)

\* clean_lookbook_assets on document r, files fs and objects os.
clean_lookbook_assets(r, fs, os, q) ==
  CleanFrom([doc |-> r, files |-> fs, objects |-> os, would |-> {},
             removed |-> {}], q, 1)

\* ------------------------------------------------- script generation
\* FullScriptPagesResponse as the response schema shapes it: character
\* lists hold char_ ids, location fields "" or a loc_ id, and the delta
\* lists ids of their own prefix.  No prop ids occur.
CharLists == SeqsUpTo({"char_a"}, MaxMentions)
LocFields == {"", "loc_b"}
Panels == [characters : CharLists, props : {<< >>}, location_id : LocFields]
ScriptPageSet ==
  [panels : [1..PanelsPerPage -> Panels], location_id : LocFields,
   characters : CharLists, props : {<< >>}]
Scripts ==
  [pages : [1..ScriptPages -> ScriptPageSet], lookbook_delta : Deltas]
NoScript ==
  [pages |-> << >>,
   lookbook_delta |-> [characters_to_add |-> << >>,
                       locations_to_add |-> << >>, props_to_add |-> << >>]]

\* _index_lookbook: the ids of the three lists of lookbook.json.
IndexLookbook(r) ==
  [l \in ListNames |-> {r[l][k].id : k \in 1..Len(r[l])}]

\* _targets_for_pages / _required_new_counts: the minima of new characters,
\* locations and props for a story of the given page count.
RequiredNewCounts(page_count) ==
  IF page_count < 6 THEN <<0, 0, 0>>
  ELSE IF page_count <= 15 THEN <<2, 2, 1>>
  ELSE <<2, 2, 2>>

\* The number of positions of seq that hold x.
Occurrences(seq, x) == Cardinality({k \in 1..Len(seq) : seq[k] = x})

RECURSIVE SumTo(_, _)
SumTo(f, n) == IF n = 0 THEN 0 ELSE f[n] + SumTo(f, n - 1)

\* The counting loops of _audit_usage and _prune_unused_from_delta: panel
\* mentions of an id in the characters (props) lists, pages whose
\* location_id is the id, panels whose location_id is the id.
PanelMentions(sc, field, id) ==
  SumTo([p \in 1..Len(sc.pages) |->
           SumTo([k \in 1..Len(sc.pages[p].panels) |->
                    Occurrences(sc.pages[p].panels[k][field], id)],
                 Len(sc.pages[p].panels))],
        Len(sc.pages))
LocPageCount(sc, id) ==
  Cardinality({p \in 1..Len(sc.pages) : sc.pages[p].location_id = id})
LocPanelCount(sc, id) ==
  SumTo([p \in 1..Len(sc.pages) |->
           Cardinality({k \in 1..Len(sc.pages[p].panels) :
                          sc.pages[p].panels[k].location_id = id})],
        Len(sc.pages))

\* The usage a new entity of each kind needs.
CharUsed(sc, id) == PanelMentions(sc, "characters", id) >= 2
PropUsed(sc, id) == PanelMentions(sc, "props", id) >= 2
LocUsed(sc, id) == LocPageCount(sc, id) >= 1 \/ LocPanelCount(sc, id) >= 2

SeqSet(seq) == {seq[k] : k \in 1..Len(seq)}

\* _audit_usage: ids used in panels (locations: also as a page's
\* location_id) that are neither known nor in the delta; delta ids below
\* their usage; whether new entities are missing from the minima.
AuditUsage(sc, known, minima) ==
  LET d == sc.lookbook_delta
      used_chars ==
        {id \in RegIds : PanelMentions(sc, "characters", id) > 0}
      used_props == {id \in RegIds : PanelMentions(sc, "props", id) > 0}
      used_locs ==
        {id \in RegIds : LocPageCount(sc, id) > 0 \/ LocPanelCount(sc, id) > 0}
      unknown ==
        (used_chars \ (known.characters \cup SeqSet(d.characters_to_add)))
          \cup (used_locs \ (known.locations \cup SeqSet(d.locations_to_add)))
          \cup (used_props \ (known.props \cup SeqSet(d.props_to_add)))
      missing ==
        {id \in SeqSet(d.characters_to_add) : ~CharUsed(sc, id)}
          \cup {id \in SeqSet(d.props_to_add) : ~PropUsed(sc, id)}
          \cup {id \in SeqSet(d.locations_to_add) : ~LocUsed(sc, id)}
      need_more ==
        \/ minima[1] > Len(d.characters_to_add)
        \/ minima[2] > Len(d.locations_to_add)
        \/ minima[3] > Len(d.props_to_add)
  IN [ok |-> unknown = {} /\ missing = {} /\ ~need_more,
      unknown_used |-> unknown, missing_usage |-> missing]

\* _prune_unused_from_delta: keep the delta entries that meet their usage.
PruneUnusedFromDelta(sc) ==
  [sc EXCEPT
     !.lookbook_delta.characters_to_add =
        SelectSeq(@, LAMBDA id : CharUsed(sc, id)),
     !.lookbook_delta.props_to_add =
        SelectSeq(@, LAMBDA id : PropUsed(sc, id)),
     !.lookbook_delta.locations_to_add =
        SelectSeq(@, LAMBDA id : LocUsed(sc, id))]

\* _collect_page_ids over the pages 1..p of a script: every id a page or
\* one of its panels names.
RECURSIVE CollectIds(_, _)
CollectIds(sc, p) ==
  IF p = 0 THEN {}
  ELSE LET page == sc.pages[p]
           inPanels ==
             UNION {SeqSet(page.panels[k].characters)
                      \cup SeqSet(page.panels[k].props)
                      \cup ({page.panels[k].location_id} \ {""}) :
                    k \in 1..Len(page.panels)}
       IN (({page.location_id} \ {""}) \cup SeqSet(page.characters)
             \cup SeqSet(page.props) \cup inPanels)
            \cup CollectIds(sc, p - 1)

\* page_count values of the requests: a short story and a longer one.
PageCounts == {4, 8}

\* generate_page: the file name of the page of prompt i, page-<i>.png with
\* i counted from 1, as its number.
PageName(i) == i

\* generate_pages: results[i] = fut.result() for the future of prompt i,
\* yielded after the futures in order.
StoreResult_ByArrival(res, order, i, name) ==
  [res EXCEPT ![Len(order) + 1] = name]
StoreResult(res, order, i, name) == [res EXCEPT ![i] = name]

\* generate_pages: [f for f in results if f].
Compact(res) == SelectSeq(res, LAMBDA f : f # 0)

VARIABLES
  manifest,        \* manifest.json on disk
  files,           \* pages p whose page-p.png exists in the job directory
  lookbookExists,  \* lookbook.json exists
  lookbook,        \* entity -> EntityStates
  coverPresent,    \* the cover reference of the request resolves
  task,            \* the job's cloud task: none, queued, dispatched, deleted
  \* worker_process / render_pages_chained locals
  wpc, wmf, page_no, attempt, prev_ref, last_error, image_paths_to_send, sent,
  deliveries,
  \* stop_comic_job locals
  spc, smf, stops,
  \* enqueue_comic_job locals
  epc, enqueues,
  \* history variables (observations of the current delivery)
  genIssued,       \* pages for which a generation call was issued
  exhausted,       \* pages whose Retries attempts all failed
  upFailed,        \* pages whose upload raised after a successful generation
  faulted,         \* some generation or upload call has failed so far
  stopAt,          \* page whose generation was in flight when a stop returned
  \* a second concurrent delivery, instance replacement, the entity registry
  parked,          \* locals of the delivery that is not taking the next step
  earlier,         \* manifest.json as it was when the job directory was lost
  fresh,           \* the instance was replaced: the job directory started empty
  reg,             \* lookbook.json as a document: the three entity lists
  regOps,          \* calls made so far: [seed, gen, delta]
  lastSeed,        \* the request of the last call when it was a seed
  repeated,        \* the last call was a seed repeating the call before it
  once,            \* the registry the call before it saved, when repeated
  regen,           \* <<list, id, type>> generated successfully so far
  regenTwice,      \* <<list, id, type>> generated successfully twice or more
  \* the renderer's ensure step on the registry document
  ensIds,          \* the ids of the page the last ensure step ran for
  ensMissing,      \* the ids that step reported missing
  \* the last generate_ref_assets call that named its types
  genList,         \* the list its id resolved to, "" before any such call
  genAsked,        \* the types as the request listed them
  genCalls,        \* the types its image calls were made for, in call order
  genDone,         \* the types it generated
  \* clean_lookbook_assets and the stored reference images
  lbFiles,         \* <<id, type>> whose lookbook/<id>/<type>.png is on disk
  lbObjects,       \* <<id, type>> whose image object is in the bucket
  cleanReq,        \* the request of the last clean call, NoClean before any
  cleanOut,        \* what that call reported: ids it would remove, removed
  \* generate_full_script
  scPc,            \* idle, audit (first script parsed), done (returned)
  script,          \* the script held: pages and lookbook_delta
  scKnown,         \* the known entities indexed from lookbook.json
  scPageCount,     \* page_count of the request
  scPath,          \* how the call returned: audit_ok, repair_accepted,
                   \* prune_repaired, prune_original
  \* generate_pages (main.py)
  lgPc,            \* idle, pool (inside the executor block), returned
  lgN,             \* number of prompts
  max_workers,     \* threads of the pool
  lgState,         \* per prompt: submitted, running, saved, none, collected_*
  lgAttempt,       \* per prompt: the attempt generate_page is in
  results,         \* per prompt: the page name stored, 0 for None
  lgOrder,         \* the prompts in the order as_completed yielded them
  lgReturned       \* the list generate_pages returned

workerVars == <<wpc, wmf, page_no, attempt, prev_ref, last_error,
                image_paths_to_send, sent, deliveries>>
stopVars == <<spc, smf, stops>>
enqVars == <<epc, enqueues>>
histVars == <<genIssued, exhausted, upFailed, faulted, stopAt>>
envVars == <<lookbookExists, lookbook, coverPresent>>
regVars == <<reg, regOps, lastSeed, repeated, once, regen, regenTwice>>
ensVars == <<ensIds, ensMissing>>
ordVars == <<genList, genAsked, genCalls, genDone>>
cleanVars == <<lbFiles, lbObjects, cleanReq, cleanOut>>
scriptVars == <<scPc, script, scKnown, scPageCount, scPath>>
legacyVars == <<lgPc, lgN, max_workers, lgState, lgAttempt, results,
                lgOrder, lgReturned>>
extVars == <<ensVars, ordVars, cleanVars, scriptVars, legacyVars>>
auxVars == <<parked, earlier, fresh, regVars, extVars>>
vars == <<manifest, files, task, workerVars, stopVars, enqVars, histVars,
          envVars, auxVars>>

Init ==
  /\ manifest = EmptyManifest
  /\ files = {}
  /\ lookbookExists \in BOOLEAN
  /\ lookbook \in [Entities -> EntityStates]
  /\ (~lookbookExists => \A e \in Entities : lookbook[e] = "absent")
  /\ coverPresent \in BOOLEAN
  /\ task = "none"
  /\ wpc = "idle" /\ wmf = EmptyManifest /\ page_no = 1 /\ attempt = 1
  /\ prev_ref = CoverRef /\ last_error = 0
  /\ image_paths_to_send = {} /\ sent = {}
  /\ deliveries = 0
  /\ spc = "idle" /\ smf = EmptyManifest /\ stops = 0
  /\ epc = "idle" /\ enqueues = 0
  /\ genIssued = {} /\ exhausted = {} /\ upFailed = {} /\ faulted = FALSE
  /\ stopAt = 0
  /\ parked = IdleLocals
  /\ earlier = EmptyManifest /\ fresh = FALSE
  /\ reg = EmptyLookbook
  /\ regOps = [seed |-> 0, gen |-> 0, delta |-> 0]
  /\ lastSeed = NoRequest /\ repeated = FALSE /\ once = EmptyLookbook
  /\ regen = {} /\ regenTwice = {}
  /\ ensIds = {} /\ ensMissing = {}
  /\ genList = "" /\ genAsked = << >> /\ genCalls = << >> /\ genDone = {}
  /\ lbFiles = {} /\ lbObjects = {}
  /\ cleanReq = NoClean /\ cleanOut = [would |-> {}, removed |-> {}]
  /\ scPc = "idle" /\ script = NoScript /\ scKnown = IndexLookbook(reg)
  /\ scPageCount = 0 /\ scPath = ""
  /\ lgPc = "idle" /\ lgN = 0 /\ max_workers = 1
  /\ lgState = << >> /\ lgAttempt = << >> /\ results = << >>
  /\ lgOrder = << >> /\ lgReturned = << >>

\* ------------------------------------------------------- enqueue_comic_job
\* router.py 57-63: load the manifest; a cancelled job is acknowledged
\* without reseeding; otherwise seed_manifest_pending overwrites it.
EnqSeed ==
  /\ epc = "idle" /\ enqueues < MaxEnqueues
  /\ IF manifest.cancelled
       THEN /\ enqueues' = enqueues + 1
            /\ UNCHANGED <<manifest, epc>>
       ELSE /\ manifest' = SeededManifest
            /\ epc' = "task"
            /\ UNCHANGED enqueues
  /\ UNCHANGED <<files, task, workerVars, stopVars, histVars, envVars>>
  /\ UNCHANGED auxVars

\* router.py 65-80: upload request.json, create the cloud task.
EnqCreateTask ==
  /\ epc = "task"
  /\ task' = "queued"
  /\ epc' = "name"
  /\ UNCHANGED <<manifest, files, enqueues, workerVars, stopVars, histVars,
                 envVars>>
  /\ UNCHANGED auxVars

\* router.py 82-88: set_task_name, return.
EnqSetTaskName ==
  /\ epc = "name"
  /\ manifest' = set_task_name(manifest)
  /\ epc' = "idle"
  /\ enqueues' = enqueues + 1
  /\ UNCHANGED <<files, task, workerVars, stopVars, histVars, envVars>>
  /\ UNCHANGED auxVars

\* ---------------------------------------------------------- worker_process
\* router.py 100-146 and service.py 673-682: load the manifest once into the
\* local mf, acknowledge a cancelled job, resolve the cover, enter the
\* renderer, which returns at once when lookbook.json is missing.
\* router.py 104-107, 131-134 and service.py 677-682: where a delivery goes
\* after loading the manifest mf: acknowledge a cancelled job or give up on
\* a missing cover ("idle"), skip rendering without a lookbook ("collect"),
\* or enter the render loop ("top").
WorkerEntry_IgnoresCancelled(mf) ==
  IF ~coverPresent THEN "idle"
  ELSE IF ~lookbookExists THEN "collect"
  ELSE "top"
WorkerEntry(mf) ==
  IF mf.cancelled \/ ~coverPresent THEN "idle"
  ELSE IF ~lookbookExists THEN "collect"
  ELSE "top"

WorkerStart ==
  /\ wpc = "idle" /\ task \in {"queued", "dispatched"}
  /\ deliveries < MaxDeliveries
  /\ task' = "dispatched"
  /\ deliveries' = deliveries + 1
  /\ wmf' = manifest
  /\ wpc' = WorkerEntry(manifest)
  /\ page_no' = 1 /\ attempt' = 1 /\ prev_ref' = CoverRef /\ last_error' = 0
  /\ image_paths_to_send' = {} /\ sent' = {}
  /\ genIssued' = {} /\ exhausted' = {} /\ upFailed' = {} /\ stopAt' = 0
  /\ UNCHANGED <<manifest, files, faulted, stopVars, enqVars, envVars>>
  /\ UNCHANGED auxVars

\* service.py 684-689: the cancellation check at the top of an iteration.
RenderTop ==
  /\ wpc = "top"
  /\ wpc' = IF manifest.cancelled THEN "collect" ELSE "ensure"
  /\ UNCHANGED <<manifest, files, task, wmf, page_no, attempt, prev_ref,
                 last_error, image_paths_to_send, sent, deliveries, stopVars,
                 enqVars, histVars, envVars>>
  /\ UNCHANGED auxVars

\* service.py 693-752 with _ensure_ref_assets_for_ids (86-132): generate
\* reference assets for the present entities that have none (each may fail),
\* block the page on missing ids, otherwise gather the reference files and
\* mark the page running.
RenderEnsure ==
  /\ wpc = "ensure"
  /\ LET ids == PageIds(page_no) IN
     \E ok \in SUBSET NeedGen(lookbook, ids) :
       LET lb == [e \in Entities |-> IF e \in ok THEN "hasrefs"
                                     ELSE lookbook[e]]
           missing == NotFound(lookbook, ids) \cup NoRefAssets(lb, ids)
       IN
       /\ lookbook' = lb
       /\ faulted' = (faulted \/ ok # NeedGen(lookbook, ids))
       /\ IF missing # {}
            THEN /\ manifest' = mark_page_status(manifest, page_no,
                                  "blocked_missing_refs", [ids |-> missing])
                 /\ wpc' = "collect"
                 /\ UNCHANGED <<image_paths_to_send, attempt, last_error>>
            ELSE /\ image_paths_to_send' = LookbookRefPaths(ids)
                 /\ manifest' = mark_page_status(manifest, page_no, "running",
                                                 << >>)
                 /\ attempt' = 1 /\ last_error' = 0
                 /\ wpc' = "attempt"
  /\ UNCHANGED <<files, task, wmf, page_no, prev_ref, sent, deliveries,
                 stopVars, enqVars, genIssued, exhausted, upFailed, stopAt,
                 lookbookExists, coverPresent>>
  /\ UNCHANGED auxVars

\* _open_files (service.py 754-755): only existing paths are opened.
FileExists(f, fs) == f[1] # "page" \/ f[2] \in fs

\* service.py 757-769: mark running with the attempt number and issue the
\* generation call with the opened reference files.
RenderAttempt ==
  /\ wpc = "attempt"
  /\ manifest' = mark_page_status(manifest, page_no, "running", << >>)
  /\ sent' = {f \in image_paths_to_send : FileExists(f, files)}
  /\ genIssued' = genIssued \cup {page_no}
  /\ wpc' = "gen"
  /\ UNCHANGED <<files, task, wmf, page_no, attempt, prev_ref, last_error,
                 image_paths_to_send, deliveries, stopVars, enqVars,
                 exhausted, upFailed, faulted, stopAt, envVars>>
  /\ UNCHANGED auxVars

\* service.py 777-793: the call returned an image; write page-N.png through
\* the temp file and mark the page rendered.
GenSuccess ==
  /\ wpc = "gen"
  /\ files' = files \cup {page_no}
  /\ manifest' = mark_page_status(manifest, page_no, "rendered", << >>)
  /\ wpc' = "upload"
  /\ UNCHANGED <<task, wmf, page_no, attempt, prev_ref, last_error,
                 image_paths_to_send, sent, deliveries, stopVars, enqVars,
                 histVars, envVars>>
  /\ UNCHANGED auxVars

\* service.py 830-835 and the loop header: when page-N.png does not exist
\* the page is marked failed and the chain stops; otherwise the loop goes on
\* to the next page.  mf and fs are the manifest and the files the
\* preceding statements of the same step left.
FinishIteration(mf, fs) ==
  IF page_no \notin fs
    THEN /\ manifest' = mark_page_status(mf, page_no, "failed",
                                         [last_error |-> last_error'])
         /\ wpc' = "collect"
         /\ page_no' = page_no
    ELSE /\ manifest' = mf
         /\ IF page_no < NPages
              THEN wpc' = "top" /\ page_no' = page_no + 1
              ELSE wpc' = "collect" /\ page_no' = page_no

\* service.py 823-828: the call raised; remember the error, back off and try
\* again, or leave the retry loop after the last attempt.
GenFail ==
  /\ wpc = "gen"
  /\ last_error' = attempt
  /\ faulted' = TRUE
  /\ IF attempt < Retries
       THEN /\ attempt' = attempt + 1
            /\ wpc' = "attempt"
            /\ UNCHANGED <<manifest, page_no, exhausted>>
       ELSE /\ exhausted' = exhausted \cup {page_no}
            /\ FinishIteration(manifest, files)
            /\ UNCHANGED attempt
  /\ UNCHANGED <<files, task, wmf, prev_ref, image_paths_to_send, sent,
                 deliveries, stopVars, enqVars, genIssued, upFailed, stopAt,
                 envVars>>
  /\ UNCHANGED auxVars

\* service.py 795-804, 819-821: the upload succeeded; mark done, chain.
UploadOk ==
  /\ wpc = "upload"
  /\ prev_ref' = PageFile(page_no)
  /\ upFailed' = upFailed \ {page_no}
  /\ UNCHANGED <<files, task, wmf, attempt, last_error, image_paths_to_send,
                 sent, deliveries, stopVars, enqVars, genIssued, exhausted,
                 faulted, stopAt, envVars>>
  /\ FinishIteration(mark_page_status(manifest, page_no, "done",
                                      [uploaded |-> "true"]), files)
  /\ UNCHANGED auxVars

\* service.py 805-821: the upload raised; keep rendered, record the error.
UploadFail ==
  /\ wpc = "upload"
  /\ prev_ref' = PageFile(page_no)
  /\ upFailed' = upFailed \cup {page_no}
  /\ faulted' = TRUE
  /\ UNCHANGED <<files, task, wmf, attempt, last_error, image_paths_to_send,
                 sent, deliveries, stopVars, enqVars, genIssued, exhausted,
                 stopAt, envVars>>
  /\ FinishIteration(mark_page_status(manifest, page_no, "rendered",
                       [uploaded |-> "false", upload_error |-> TRUE]), files)
  /\ UNCHANGED auxVars

\* router.py 148-187: collect the local page files; when all are present and
\* the mf loaded at the start has no final, package, upload the artifact
\* (the upload may fail), save mf and prune the job directory.
Finalize ==
  /\ wpc = "collect"
  /\ wpc' = "idle"
  /\ IF files = Pages /\ wmf.final = "null"
       THEN \E up \in BOOLEAN :
              /\ wmf' = [wmf EXCEPT !.exists = TRUE,
                                    !.final = IF up THEN "gcs" ELSE "local"]
              /\ manifest' = wmf'
              /\ files' = IF PrunePagesAfterFinal THEN {} ELSE files
              /\ faulted' = (faulted \/ ~up)
       ELSE UNCHANGED <<wmf, manifest, files, faulted>>
  /\ UNCHANGED <<task, page_no, attempt, prev_ref, last_error,
                 image_paths_to_send, sent, deliveries, stopVars, enqVars,
                 genIssued, exhausted, upFailed, stopAt, envVars>>
  /\ UNCHANGED auxVars

\* ---------------------------------------------------------- stop_comic_job
\* router.py 191-196: 404 without a manifest, else load it into mf.
StopLoad ==
  /\ spc = "idle" /\ stops < MaxStops
  /\ manifest.exists
  /\ smf' = manifest
  /\ spc' = "set"
  /\ UNCHANGED <<manifest, files, task, stops, workerVars, enqVars, histVars,
                 envVars>>
  /\ UNCHANGED auxVars

\* router.py 198-199: set_cancelled(mf_path, True).
StopSetCancelled ==
  /\ spc = "set"
  /\ manifest' = set_cancelled(manifest)
  /\ spc' = "save"
  /\ UNCHANGED <<files, task, smf, stops, workerVars, enqVars, histVars,
                 envVars>>
  /\ UNCHANGED auxVars

\* router.py 201-218: delete the queued task when mf names one (the delete
\* may fail or find the task already dispatched), then mf["final"] =
\* cancelled and save_manifest(mf_path, mf).
StopSave ==
  /\ spc = "save"
  /\ \E deleted \in BOOLEAN :
       /\ deleted => (smf.task_name /\ task = "queued")
       /\ task' = IF deleted THEN "deleted" ELSE task
  /\ smf' = [smf EXCEPT !.final = "cancelled"]
  /\ manifest' = smf'
  /\ spc' = "idle"
  /\ stops' = stops + 1
  /\ stopAt' = IF wpc = "gen" THEN page_no ELSE stopAt
  /\ UNCHANGED <<files, workerVars, enqVars, genIssued, exhausted, upFailed,
                 faulted, envVars>>
  /\ UNCHANGED auxVars

Next ==
  \/ EnqSeed \/ EnqCreateTask \/ EnqSetTaskName
  \/ WorkerStart \/ RenderTop \/ RenderEnsure \/ RenderAttempt
  \/ GenSuccess \/ GenFail \/ UploadOk \/ UploadFail \/ Finalize
  \/ StopLoad \/ StopSetCancelled \/ StopSave

Spec == Init /\ [][Next]_vars

\* ------------------------------------------------------ instance replacement
\* The job directory lives on the instance's disk (paths.py job_dir).
\* Between two requests the instance is replaced: the directory a later
\* request finds (worker_process, os.makedirs exist_ok=True) is empty, so manifest.json, the page files and lookbook.json
\* are gone; the objects in the bucket and the cloud task remain.
InstanceReplaced ==
  /\ ~fresh
  /\ wpc = "idle" /\ spc = "idle" /\ epc = "idle"
  /\ manifest.exists
  /\ earlier' = manifest
  /\ fresh' = TRUE
  /\ manifest' = EmptyManifest
  /\ files' = {}
  /\ lookbookExists' = FALSE
  /\ lookbook' = [e \in Entities |-> "absent"]
  /\ UNCHANGED <<task, coverPresent, workerVars, stopVars, enqVars, histVars,
                 parked, regVars, extVars>>

NextFresh == Next \/ InstanceReplaced

SpecFresh == Init /\ [][NextFresh]_vars

\* ------------------------------------------------ two concurrent deliveries
\* The queue delivers at least once and the server runs two worker processes
\* (gunicorn_conf.py workers), so a second worker_process invocation of the
\* job can run while the first is still rendering.  Each invocation has its
\* own locals; the manifest, the files and the lookbook are shared.  The
\* worker actions act on the locals of the invocation that takes the step;
\* Switch hands the step to the other invocation.
Locals ==
  [wpc |-> wpc, wmf |-> wmf, page_no |-> page_no, attempt |-> attempt,
   prev_ref |-> prev_ref, last_error |-> last_error,
   image_paths_to_send |-> image_paths_to_send, sent |-> sent]

Switch ==
  /\ deliveries >= 1
  /\ parked' = Locals
  /\ wpc' = parked.wpc /\ wmf' = parked.wmf
  /\ page_no' = parked.page_no /\ attempt' = parked.attempt
  /\ prev_ref' = parked.prev_ref /\ last_error' = parked.last_error
  /\ image_paths_to_send' = parked.image_paths_to_send
  /\ sent' = parked.sent
  /\ UNCHANGED <<manifest, files, task, deliveries, stopVars, enqVars,
                 histVars, envVars, earlier, fresh, regVars, extVars>>

Next2D ==
  \/ EnqSeed \/ EnqCreateTask \/ EnqSetTaskName
  \/ WorkerStart \/ RenderTop \/ RenderEnsure \/ RenderAttempt
  \/ GenSuccess \/ GenFail \/ UploadOk \/ UploadFail \/ Finalize
  \/ Switch

Spec2D == Init /\ [][Next2D]_vars

\* ------------------------------------------------------ registry endpoints
\* The calls that write lookbook.json, one after another on one job: the
\* seed endpoint, the reference-asset generator and the script endpoint's
\* delta merge.  The job pipeline stands still meanwhile.
jobVars == <<manifest, files, task, workerVars, stopVars, enqVars, histVars,
             envVars, parked, earlier, fresh>>

\* seed_from_cover with a request q.
SeedFromCover ==
  /\ regOps.seed < MaxSeeds
  /\ \E q \in SeedRequests :
       /\ reg' = seed_from_cover(reg, q)
       /\ lastSeed' = q
       /\ once' = reg'
  /\ repeated' = FALSE
  /\ regOps' = [regOps EXCEPT !.seed = @ + 1]
  /\ UNCHANGED <<regen, regenTwice, jobVars>>
  /\ UNCHANGED extVars

\* The client sends its seed request q twice in a row: seed_from_cover
\* runs on the registry, then again on the registry the first call saved.
SeedFromCoverTwice ==
  /\ regOps.seed < MaxSeeds
  /\ \E q \in SeedRequests :
       /\ once' = seed_from_cover(reg, q)
       /\ reg' = seed_from_cover(once', q)
       /\ lastSeed' = q
  /\ repeated' = TRUE
  /\ regOps' = [regOps EXCEPT !.seed = @ + 1]
  /\ UNCHANGED <<regen, regenTwice, jobVars>>
  /\ UNCHANGED extVars

\* generate_ref_assets for one id: an id in no list is reported and nothing
\* changes; otherwise each wanted type is generated (any of them may fail)
\* and the document is saved.
GenerateRefAssets ==
  /\ regOps.gen < MaxGens
  /\ \E g \in GenRequests :
       LET l == IdxList(reg, g.id) IN
       IF l = ""
         THEN UNCHANGED <<reg, regen, regenTwice>>
         ELSE LET i == GetById(reg[l], g.id)
                  want == WantTypes(l, g)
              IN \E ok \in SUBSET (1..Len(want)) :
                   LET res == GenTypes(reg[l][i].reference_assets, want, 1,
                                       g, ok)
                       new == {<<l, g.id, t>> : t \in res.done}
                   IN /\ reg' = [reg EXCEPT
                                   ![l][i].reference_assets = res.assets]
                      /\ regen' = regen \cup new
                      /\ regenTwice' = regenTwice \cup (regen \cap new)
  /\ regOps' = [regOps EXCEPT !.gen = @ + 1]
  /\ lastSeed' = NoRequest /\ repeated' = FALSE /\ once' = reg'
  /\ UNCHANGED jobVars
  /\ UNCHANGED extVars

\* full_script: _lb_load, _apply_delta_to_lookbook, _lb_save.
ApplyDelta ==
  /\ regOps.delta < MaxDeltas
  /\ \E delta \in Deltas : reg' = apply_delta_to_lookbook(reg, delta)
  /\ regOps' = [regOps EXCEPT !.delta = @ + 1]
  /\ lastSeed' = NoRequest /\ repeated' = FALSE /\ once' = reg'
  /\ UNCHANGED <<regen, regenTwice, jobVars>>
  /\ UNCHANGED extVars

\* The registry calls start on a job without lookbook.json (_load_lookbook
\* then yields LookbookDoc()) and without a cover.
InitReg == Init /\ ~lookbookExists /\ ~coverPresent

NextReg ==
  SeedFromCover \/ SeedFromCoverTwice \/ GenerateRefAssets \/ ApplyDelta

SpecReg == InitReg /\ [][NextReg]_vars

\* ------------------------------------------- the renderer's ensure step
\* _has_any_ref_assets on the entity an id resolves to.
HasAnyRefAssets(r, id) ==
  LET l == IdxList(r, id)
  IN Len(r[l][GetById(r[l], id)].reference_assets) > 0

\* generate_ref_assets(ids=need_gen, force=False) as _ensure_ref_assets_for_ids
\* calls it: the default types of each id in turn; oks[id] are the positions
\* of its wanted types whose generation succeeds.
RECURSIVE GenDefaults(_, _, _)
GenDefaults(r, need_gen, oks) ==
  IF need_gen = {} THEN r
  ELSE LET id == CHOOSE x \in need_gen : TRUE
           l == IdxList(r, id)
           i == GetById(r[l], id)
           g == [id |-> id, force |-> FALSE, types |-> << >>]
           res == GenTypes(r[l][i].reference_assets, WantTypes(l, g), 1, g,
                           oks[id])
       IN GenDefaults([r EXCEPT ![l][i].reference_assets = res.assets],
                      need_gen \ {id}, oks)

\* _ensure_ref_assets_for_ids for the ids of a page: ids in no list are
\* missing; the present ids without any reference asset are generated
\* (the call may raise as a whole, leaving the document as it was); ids
\* still without any asset afterwards are missing.
EnsureRefAssets ==
  /\ ensIds = {}
  /\ \E ids \in (SUBSET RegIds) \ {{}} :
       LET not_found == {id \in ids : IdxList(reg, id) = ""}
           need_gen == {id \in ids \ not_found : ~HasAnyRefAssets(reg, id)}
       IN \E raised \in {r \in BOOLEAN : r => need_gen # {}},
             oks \in [need_gen -> SUBSET (1..2)] :
            LET doc == IF raised THEN reg ELSE GenDefaults(reg, need_gen, oks)
            IN /\ reg' = doc
               /\ ensIds' = ids
               /\ ensMissing' =
                    not_found \cup (IF raised THEN need_gen ELSE {})
                    \cup {id \in ids \ not_found : ~HasAnyRefAssets(doc, id)}
  /\ lastSeed' = NoRequest /\ repeated' = FALSE /\ once' = reg'
  /\ UNCHANGED <<regOps, regen, regenTwice, jobVars, ordVars, cleanVars,
                 scriptVars, legacyVars>>

\* The renderer runs on the registry the seed and the script delta left.
NextEnsure == SeedFromCover \/ ApplyDelta \/ EnsureRefAssets

SpecEnsure == InitReg /\ [][NextEnsure]_vars

\* ------------------------------------- generate_ref_assets, types named
\* generate_ref_assets for one id whose types the caller lists: the wanted
\* types are ordered, then generated one after the other, each image call
\* returning (or raising) before the next type is looked at.
GenerateRefAssetsListed ==
  /\ genList = ""
  /\ \E g \in ListedRequests :
       LET l == IdxList(reg, g.id) IN
       /\ l # "" /\ g.types # << >>
       /\ LET i == GetById(reg[l], g.id)
              want == WantTypes(l, g)
          IN \E ok \in SUBSET (1..Len(want)) :
               LET res == GenTypes(reg[l][i].reference_assets, want, 1, g, ok)
               IN /\ reg' = [reg EXCEPT ![l][i].reference_assets = res.assets]
                  /\ genList' = l
                  /\ genAsked' = g.types
                  /\ genCalls' = res.calls
                  /\ genDone' = res.done
  /\ lastSeed' = NoRequest /\ repeated' = FALSE /\ once' = reg'
  /\ UNCHANGED <<regOps, regen, regenTwice, jobVars, ensVars, cleanVars,
                 scriptVars, legacyVars>>

NextListed == SeedFromCover \/ ApplyDelta \/ GenerateRefAssetsListed

SpecListed == InitReg /\ [][NextListed]_vars

\* ---------------------------------------------------- clean_lookbook_assets
\* generate_ref_assets with the default types for one id, with the image
\* files it writes: each type that generates is saved under lookbook/<id>/
\* and uploaded before the registry entry is replaced.
GenerateRefAssetsStored ==
  /\ cleanReq = NoClean
  /\ \E id \in RegIds :
       LET l == IdxList(reg, id) IN
       /\ l # ""
       /\ \A t \in DesiredTypes([types |-> <<"*">>, include_cover |-> TRUE]) :
            <<id, t>> \notin lbFiles
       /\ LET i == GetById(reg[l], id)
              g == [id |-> id, force |-> FALSE, types |-> << >>]
              want == WantTypes(l, g)
          IN \E ok \in SUBSET (1..Len(want)) :
               LET res == GenTypes(reg[l][i].reference_assets, want, 1, g, ok)
                   made == {<<id, t>> : t \in res.done}
               IN /\ reg' = [reg EXCEPT ![l][i].reference_assets = res.assets]
                  /\ lbFiles' = lbFiles \cup made
                  /\ lbObjects' = lbObjects \cup made
  /\ lastSeed' = NoRequest /\ repeated' = FALSE /\ once' = reg'
  /\ UNCHANGED <<regOps, regen, regenTwice, jobVars, ensVars, ordVars,
                 cleanReq, cleanOut, scriptVars, legacyVars>>

\* clean_lookbook_assets with a request q on a job whose lookbook.json
\* exists (without it _load_lookbook raises before anything is done).  The
\* document is saved when it changed and the run is not a dry run.
CleanLookbookAssets ==
  /\ cleanReq = NoClean
  /\ regOps.seed + regOps.delta > 0
  /\ \E q \in CleanRequests :
       LET out == clean_lookbook_assets(reg, lbFiles, lbObjects, q)
       IN /\ reg' = IF q.dry_run THEN reg ELSE out.doc
          /\ lbFiles' = out.files
          /\ lbObjects' = out.objects
          /\ cleanReq' = q
          /\ cleanOut' = [would |-> out.would, removed |-> out.removed]
  /\ lastSeed' = NoRequest /\ repeated' = FALSE /\ once' = reg'
  /\ UNCHANGED <<regOps, regen, regenTwice, jobVars, ensVars, ordVars,
                 scriptVars, legacyVars>>

\* The calls run on the registry a seed left: entities with a cover asset
\* or, seeded without a cover, with no asset at all.
NextClean == SeedFromCover \/ GenerateRefAssetsStored \/ CleanLookbookAssets

SpecClean == InitReg /\ [][NextClean]_vars

\* ---------------------------------------------------- generate_full_script
\* generate_full_script, up to the first audit: the lookbook is indexed and
\* the model's answer parses into a script.
ScriptFirstCall ==
  /\ scPc = "idle"
  /\ \E sc \in Scripts, n \in PageCounts :
       /\ script' = sc
       /\ scPageCount' = n
  /\ scKnown' = IndexLookbook(reg)
  /\ scPc' = "audit"
  /\ UNCHANGED <<scPath, regVars, jobVars, ensVars, ordVars, cleanVars,
                 legacyVars>>

\* The audit passes: the script is returned as it is.
ScriptAuditOk ==
  /\ scPc = "audit"
  /\ AuditUsage(script, scKnown, RequiredNewCounts(scPageCount)).ok
  /\ scPc' = "done"
  /\ scPath' = "audit_ok"
  /\ UNCHANGED <<script, scKnown, scPageCount, regVars, jobVars, ensVars,
                 ordVars, cleanVars, legacyVars>>

\* The audit fails and _repair_script_once answers with a script: it is
\* returned as it is when its audit passes, after pruning its delta
\* otherwise.
ScriptRepair ==
  /\ scPc = "audit"
  /\ ~AuditUsage(script, scKnown, RequiredNewCounts(scPageCount)).ok
  /\ \E repaired \in Scripts :
       IF AuditUsage(repaired, scKnown, RequiredNewCounts(scPageCount)).ok
         THEN /\ script' = repaired
              /\ scPath' = "repair_accepted"
         ELSE /\ script' = PruneUnusedFromDelta(repaired)
              /\ scPath' = "prune_repaired"
  /\ scPc' = "done"
  /\ UNCHANGED <<scKnown, scPageCount, regVars, jobVars, ensVars, ordVars,
                 cleanVars, legacyVars>>

\* The audit fails and the repair raises: the delta of the first script is
\* pruned and that script is returned.
ScriptRepairRaises ==
  /\ scPc = "audit"
  /\ ~AuditUsage(script, scKnown, RequiredNewCounts(scPageCount)).ok
  /\ script' = PruneUnusedFromDelta(script)
  /\ scPath' = "prune_original"
  /\ scPc' = "done"
  /\ UNCHANGED <<scKnown, scPageCount, regVars, jobVars, ensVars, ordVars,
                 cleanVars, legacyVars>>

\* The script is generated for a job whose registry an earlier script call
\* may have filled.
NextScript ==
  ApplyDelta \/ ScriptFirstCall \/ ScriptAuditOk \/ ScriptRepair
    \/ ScriptRepairRaises

SpecScript == InitReg /\ [][NextScript]_vars

legacyFrame == <<regVars, jobVars, ensVars, ordVars, cleanVars, scriptVars>>

\* ------------------------------------------------ legacy batch generator
\* generate_pages(prompts, max_workers): results is a list of None, one per
\* prompt, and every prompt is submitted to the pool.
LegacyCall ==
  /\ lgPc = "idle"
  /\ \E n \in 1..LegacyPrompts, w \in 1..MaxWorkers :
       /\ lgN' = n
       /\ max_workers' = w
       /\ lgState' = [i \in 1..n |-> "submitted"]
       /\ lgAttempt' = [i \in 1..n |-> 1]
       /\ results' = [i \in 1..n |-> 0]
  /\ lgPc' = "pool"
  /\ UNCHANGED <<lgOrder, lgReturned, legacyFrame>>

\* A free pool thread takes the oldest submitted prompt and enters
\* generate_page.
LegacyStart ==
  /\ lgPc = "pool"
  /\ Cardinality({i \in 1..lgN : lgState[i] = "running"}) < max_workers
  /\ \E i \in 1..lgN :
       /\ lgState[i] = "submitted"
       /\ \A j \in 1..(i - 1) : lgState[j] # "submitted"
       /\ lgState' = [lgState EXCEPT ![i] = "running"]
  /\ UNCHANGED <<lgPc, lgN, max_workers, lgAttempt, results, lgOrder,
                 lgReturned, legacyFrame>>

\* generate_page, an attempt that succeeds: the file is written and its
\* name returned.
LegacyAttemptOk ==
  /\ lgPc = "pool"
  /\ \E i \in 1..lgN :
       /\ lgState[i] = "running"
       /\ lgState' = [lgState EXCEPT ![i] = "saved"]
  /\ UNCHANGED <<lgPc, lgN, max_workers, lgAttempt, results, lgOrder,
                 lgReturned, legacyFrame>>

\* generate_page, an attempt that raises: the next attempt follows, and
\* after the last one None is returned.
LegacyAttemptFails ==
  /\ lgPc = "pool"
  /\ \E i \in 1..lgN :
       /\ lgState[i] = "running"
       /\ IF lgAttempt[i] < LegacyRetries
            THEN /\ lgAttempt' = [lgAttempt EXCEPT ![i] = @ + 1]
                 /\ UNCHANGED lgState
            ELSE /\ lgState' = [lgState EXCEPT ![i] = "none"]
                 /\ UNCHANGED lgAttempt
  /\ UNCHANGED <<lgPc, lgN, max_workers, results, lgOrder, lgReturned,
                 legacyFrame>>

\* as_completed yields a finished future: its result goes to the slot of
\* its prompt.
LegacyCollect ==
  /\ lgPc = "pool"
  /\ \E i \in 1..lgN :
       /\ lgState[i] \in {"saved", "none"}
       /\ results' = StoreResult(results, lgOrder, i,
                                 IF lgState[i] = "saved" THEN PageName(i)
                                 ELSE 0)
       /\ lgOrder' = Append(lgOrder, i)
       /\ lgState' = [lgState EXCEPT ![i] = "collected_" \o lgState[i]]
  /\ UNCHANGED <<lgPc, lgN, max_workers, lgAttempt, lgReturned, legacyFrame>>

\* Every future was yielded: the pool is left and the names that are not
\* None are returned.
LegacyReturn ==
  /\ lgPc = "pool"
  /\ Len(lgOrder) = lgN
  /\ lgReturned' = Compact(results)
  /\ lgPc' = "returned"
  /\ UNCHANGED <<lgN, max_workers, lgState, lgAttempt, results, lgOrder,
                 legacyFrame>>

NextLegacy ==
  LegacyCall \/ LegacyStart \/ LegacyAttemptOk \/ LegacyAttemptFails
    \/ LegacyCollect \/ LegacyReturn

SpecLegacy == InitReg /\ [][NextLegacy]_vars

\* ------------------------------------------------------------------ claims
Status(p) == manifest.pages[p].status

\* A step in which worker_process returns after having run.
DeliveryEnds == wpc # "idle" /\ wpc' = "idle"

\* A step in which the renderer issues a generation call.
IssuesGen == wpc = "attempt" /\ wpc' = "gen"

\* Root reference present and every entity seeded with reference assets.
AllSeeded ==
  /\ lookbookExists /\ coverPresent
  /\ \A e \in Entities : lookbook[e] = "hasrefs"

\* No stop_comic_job call has started and no enqueue call is in progress.
NoStopNoEnqueue == stops = 0 /\ spc = "idle" /\ epc = "idle"

\* The number K of leading pages 1..K that mf records as done.
DonePrefix(mf) ==
  CHOOSE k \in 0..NPages :
    /\ \A p \in 1..k : mf.pages[p].status = "done"
    /\ (k = NPages \/ mf.pages[k + 1].status # "done")

\* Position of a status along pending < running < rendered < done.
Ranked(st) == st \in {"pending", "running", "rendered", "done"}
Rank(st) ==
  CASE st = "pending" -> 0 [] st = "running" -> 1 [] st = "rendered" -> 2
    [] st = "done" -> 3 [] OTHER -> 0 - 1

\* Page p references an entity id that is not in the lookbook.
Unresolvable(p) == \E e \in PageIds(p) : lookbook[e] = "absent"

\* C1: when the one uncancelled delivery of a fully seeded job returns, with
\* no generator or storage failure, the persisted manifest has every page
\* done and final populated with a storage locator.
C1_FinalManifestAllDone ==
  [][(DeliveryEnds /\ AllSeeded /\ deliveries = 1 /\ ~faulted'
      /\ NoStopNoEnqueue')
     => /\ \A p \in Pages : manifest'.pages[p].status = "done"
        /\ manifest'.final = "gcs"]_vars

\* C2: a delivery that starts with pages 1..K done (K >= 1) issues no
\* generation call for pages 1..K; its first call is for page K+1 and uses
\* page K's file as the previous-page reference.
C2_ResumeSkipsDone ==
  (wpc = "gen" /\ DonePrefix(wmf) >= 1)
  => /\ page_no > DonePrefix(wmf)
     /\ (genIssued = {page_no} /\ attempt = 1)
        => (page_no = DonePrefix(wmf) + 1
            /\ prev_ref = PageFile(DonePrefix(wmf)))

\* C3: within the first job attempt no manifest write moves a page's status
\* backwards along pending < running < rendered < done.
C3_StatusNeverRegresses ==
  [][(deliveries' <= 1 /\ enqueues' = enqueues /\ epc' = epc
      /\ stops' = 0 /\ spc' = "idle")
     => \A p \in Pages :
          (Ranked(Status(p)) /\ Ranked(manifest'.pages[p].status))
          => Rank(manifest'.pages[p].status) >= Rank(Status(p))]_vars

\* C4: the reference images passed to the generation call for page K > 1
\* contain the output file of page K-1.
C4_PrevPageAmongRefs ==
  (wpc = "gen" /\ page_no > 1) => PageFile(page_no - 1) \in sent

\* C5: a generation call for page N > 1 is issued only while page N-1 is
\* rendered or done in the manifest, and never after an earlier page of the
\* delivery exhausted its attempts.
C5_ChainOrder ==
  [][(IssuesGen /\ page_no > 1 /\ NoStopNoEnqueue)
     => /\ Status(page_no - 1) \in {"rendered", "done"}
        /\ \A q \in exhausted : q >= page_no]_vars

\* C6 (as stated): in every delivery that runs the renderer while page p
\* references an id missing from the registry (the entities of the pages
\* before p all having reference assets), page p ends marked
\* blocked_missing_refs with that id listed.
C6_BlockedInEveryDelivery ==
  [][(DeliveryEnds /\ lookbookExists /\ coverPresent /\ NoStopNoEnqueue')
     => \A p \in Pages :
          (/\ Unresolvable(p)
           /\ \A q \in 1..(p - 1) : \A e \in PageIds(q) : lookbook[e] = "hasrefs")
          => /\ manifest'.pages[p].status = "blocked_missing_refs"
             /\ NotFound(lookbook, PageIds(p)) \subseteq manifest'.pages[p].ids
    ]_vars

\* C6 (amended): when the render loop reaches a page p that references an id
\* missing from the registry, it marks p blocked_missing_refs listing the id,
\* leaves the other pages' entries alone and stops the chain; and no such
\* page p nor any page after it is ever done or receives a generation call,
\* the pages after p staying pending.
C6_BlockingCorrectness ==
  /\ [][(wpc = "ensure" /\ wpc' # "ensure" /\ Unresolvable(page_no))
        => /\ manifest'.pages[page_no].status = "blocked_missing_refs"
           /\ NotFound(lookbook, PageIds(page_no))
                \subseteq manifest'.pages[page_no].ids
           /\ \A q \in Pages \ {page_no} :
                manifest'.pages[q] = manifest.pages[q]
           /\ wpc' = "collect"]_vars
  /\ [](\A p \in Pages : Unresolvable(p) =>
          \A q \in p..NPages :
            /\ Status(q) # "done"
            /\ q \notin genIssued
            /\ (q > p => Status(q) \in {"none", "pending"}))

\* C6 witness: page 1 done, page 2 blocked on its missing id, delivery over.
C6_Witness ==
  /\ wpc = "idle" /\ deliveries >= 1
  /\ ~Unresolvable(1) /\ Unresolvable(2)
  /\ Status(1) = "done"
  /\ Status(2) = "blocked_missing_refs"
  /\ manifest.pages[2].ids = {2}
  /\ \A q \in 3..NPages : Status(q) = "pending"

\* C7: when a delivery ends, every page whose 3 attempts all failed is
\* failed in the manifest with last_error the error of the final attempt,
\* and no 4th attempt is made.
C7_ExhaustedPageFailed ==
  [][/\ attempt' <= Retries
     /\ (DeliveryEnds /\ NoStopNoEnqueue')
        => \A p \in exhausted' :
             /\ manifest'.pages[p].status = "failed"
             /\ manifest'.pages[p].last_error = Retries]_vars

\* C8: when a delivery ends, every page whose upload raised after a
\* successful generation is rendered with uploaded=false and the upload
\* error recorded, and its local file still exists.
C8_UploadFailureKeepsRendered ==
  [][(DeliveryEnds /\ NoStopNoEnqueue')
     => \A p \in upFailed' :
          /\ manifest'.pages[p].status = "rendered"
          /\ manifest'.pages[p].uploaded = "false"
          /\ manifest'.pages[p].upload_error
          /\ p \in files']_vars

\* C9: cancelled is a one-way latch over the persisted manifest, and it is
\* true when stop_comic_job returns.
C9_CancelledLatch ==
  [][/\ manifest.cancelled => manifest'.cancelled
     /\ (spc = "save" /\ spc' = "idle") => manifest'.cancelled]_vars

\* C10: after stop_comic_job returned while the generation of page k was in
\* flight, the delivery issues no generation call for a page after k and
\* every page after k keeps status pending.
C10_StopDuringGeneration ==
  (stopAt # 0 /\ AllSeeded) =>
    \A q \in (stopAt + 1)..NPages :
      q \notin genIssued /\ Status(q) = "pending"

\* C11: a delivery that finds cancelled=true on entry acknowledges without
\* work: it returns at once, issues no generation call and no upload, and
\* leaves the manifest and the page files unchanged.
C11_CancelledDeliveryNoWork ==
  [][(wpc = "idle" /\ deliveries' # deliveries /\ manifest.cancelled)
     => /\ wpc' = "idle"
        /\ manifest' = manifest
        /\ files' = files
        /\ genIssued' = {} /\ upFailed' = {}]_vars

\* C11 witness: the last delivery loaded a cancelled manifest and returned,
\* the manifest still being the one it loaded.
C11_Witness ==
  /\ wpc = "idle" /\ deliveries >= 1
  /\ wmf.cancelled /\ manifest = wmf
  /\ coverPresent /\ lookbookExists

\* C12: in every persisted manifest, final is non-null only if every page
\* has status done.
C12_FinalOnlyWhenAllDone ==
  (manifest.final # "null" /\ stops = 0 /\ spc = "idle")
  => \A p \in Pages : Status(p) = "done"

\* C13: once final is non-null in the persisted manifest, no later step of a
\* delivery or of stop_comic_job replaces its value.
C13_FinalWrittenOnce ==
  [][(manifest.final # "null" /\ epc' = epc /\ enqueues' = enqueues)
     => manifest'.final = manifest.final]_vars

\* C15: a delivery that starts with a page rendered, its upload failed and
\* its local file on disk, issues no generation call for that page.
C15_RenderedPageNotRegenerated ==
  wpc = "gen"
  => ~(/\ wmf.pages[page_no].status = "rendered"
       /\ wmf.pages[page_no].uploaded = "false"
       /\ page_no \in files)

\* C17: a page is done in the persisted manifest only if its entry carries
\* uploaded=true; and a write makes a page done only when it is the
\* renderer's mark after the upload of the page's written local file
\* returned, or when it saves a loaded copy in which the page was done.
C17_DoneOnlyAfterUpload ==
  /\ [](\A p \in Pages :
          /\ Status(p) = "done" => manifest.pages[p].uploaded = "true"
          /\ wmf.pages[p].status = "done" => wmf.pages[p].uploaded = "true"
          /\ smf.pages[p].status = "done" => smf.pages[p].uploaded = "true")
  /\ [][\A p \in Pages :
          (manifest'.pages[p].status = "done" /\ Status(p) # "done")
          => \/ wpc = "upload" /\ page_no = p /\ p \in files
                /\ manifest'.pages[p].uploaded = "true"
             \/ spc = "save" /\ smf.pages[p].status = "done"
             \/ wpc = "collect" /\ wmf.pages[p].status = "done"]_vars

\* C17 witness: page 1 was just marked done after its file was written and
\* uploaded; the loop has moved on.
C17_Witness ==
  /\ deliveries = 1 /\ wpc \in {"top", "collect"}
  /\ prev_ref = PageFile(1)
  /\ Status(1) = "done" /\ manifest.pages[1].uploaded = "true"
  /\ 1 \in files

\* C16: a delivery that starts on an instance whose job directory is empty
\* observes the cancelled flag and the done page statuses that earlier
\* operations persisted.
C16_FreshInstanceRestoresManifest ==
  [][(wpc = "idle" /\ deliveries' # deliveries /\ fresh /\ ~manifest.exists)
     => /\ wmf'.cancelled = earlier.cancelled
        /\ \A p \in Pages :
             earlier.pages[p].status = "done" => wmf'.pages[p].status = "done"
    ]_vars

\* Two invocations of worker_process are in flight, and the one taking the
\* step has not itself recorded page p as rendered or done: it is still
\* before p, or at p ahead of the generation result.
OtherRecorded(p) ==
  /\ deliveries = 2 /\ wpc # "idle" /\ parked.wpc # "idle"
  /\ Status(p) \in {"rendered", "done"}
  /\ \/ page_no < p
     \/ page_no = p /\ wpc \in {"top", "ensure", "attempt", "gen"}

\* C14: with two deliveries of the job in flight, a page status that one of
\* them recorded as rendered or done is not lost or reverted by a write of
\* the other.
C14_ConcurrentDeliveriesKeepStatus ==
  [][\A p \in Pages :
       (OtherRecorded(p) /\ parked' = parked /\ epc' = epc)
       => Rank(manifest'.pages[p].status) >= Rank(Status(p))]_vars

\* The entities of list l of registry r, by position.
Ents(r, l) == {<<l, i>> : i \in 1..Len(r[l])}
AllEnts(r) == UNION {Ents(r, l) : l \in ListNames}
Ent(r, x) == r[x[1]][x[2]]

\* The number of assets of type t an entity holds.
CountType(assets, t) ==
  Cardinality({i \in 1..Len(assets) : assets[i].type = t})

\* No list of r holds an id twice; no entity holds the same asset twice.
NoDuplicateEntities(r) ==
  \A x, y \in AllEnts(r) :
    (x[1] = y[1] /\ Ent(r, x).id = Ent(r, y).id) => x = y
NoDuplicateAssets(r) ==
  \A x \in AllEnts(r) :
    LET a == Ent(r, x).reference_assets
    IN \A i, j \in 1..Len(a) : a[i] = a[j] => i = j

\* C18: when a seed request is sent twice in a row, whatever registry the
\* earlier calls left, the second seed_from_cover leaves the registry the
\* first one saved; no list of it holds an id twice and no entity holds a
\* reference asset twice.
C18_SeedIdempotent ==
  [][(repeated' /\ regOps'.seed # regOps.seed)
     => /\ reg' = once'
        /\ NoDuplicateEntities(reg') /\ NoDuplicateAssets(reg')]_vars

\* A request that lists one id twice and carries a cover was sent twice, on
\* a registry in which the script delta had added the entity and a portrait
\* had been generated for it.
C18_Witness ==
  /\ repeated /\ regOps.delta = 1 /\ regOps.gen >= 1
  /\ lastSeed.characters = <<"char_a", "char_a">>
  /\ lastSeed.cover = "cover1"
  /\ Len(reg.characters) = 1
  /\ reg.characters[1].created_from = "script_v1"
  /\ CountType(reg.characters[1].reference_assets, "portrait") = 1
  /\ CountType(reg.characters[1].reference_assets, "cover") = 1
  /\ once = reg

\* C19: every entity holds at most one reference asset of each type, and
\* exactly one of a type that was generated for it successfully.
C19_OneAssetPerType ==
  \A x \in AllEnts(reg) : \A t \in AssetTypes :
    LET n == CountType(Ent(reg, x).reference_assets, t)
    IN /\ n <= 1
       /\ <<x[1], Ent(reg, x).id, t>> \in regen => n = 1

\* The portrait of a seeded character has been generated twice; the entity
\* still has its cover asset.
C19_Witness ==
  /\ <<"characters", "char_a", "portrait">> \in regenTwice
  /\ Len(reg.characters) = 1
  /\ CountType(reg.characters[1].reference_assets, "portrait") = 1
  /\ CountType(reg.characters[1].reference_assets, "cover") = 1

\* C20: no id occurs twice across the three lists, and every entity's id
\* prefix names the kind of the list that holds it.
C20_IdsUniqueAndPrefixed ==
  /\ \A x, y \in AllEnts(reg) : Ent(reg, x).id = Ent(reg, y).id => x = y
  /\ \A x \in AllEnts(reg) : DetectKind(Ent(reg, x).id) = KindOfList(x[1])

\* C22: a delivery that renders a job without lookbook.json issues no
\* generation call and records page 1 as blocked_missing_refs.
C22_UnseededBlocksFirstPage ==
  [][(DeliveryEnds /\ ~lookbookExists /\ coverPresent /\ ~wmf.cancelled)
     => /\ genIssued = {}
        /\ manifest'.pages[1].status = "blocked_missing_refs"]_vars

\* A step in which render_pages_chained returns to worker_process.
RendererReturns == wpc \in {"top", "ensure", "gen", "upload"} /\ wpc' = "collect"

\* C28: when render_pages_chained returns, every page it marked running
\* with an attempt number is rendered, done or failed in the manifest.
C28_NoPageLeftRunning ==
  [][(RendererReturns /\ NoStopNoEnqueue')
     => \A p \in genIssued :
          manifest'.pages[p].status \in {"rendered", "done", "failed"}]_vars

\* C29: the manifest save that ends stop_comic_job, taken while a delivery
\* is rendering, keeps every page entry the manifest held before it.
C29_StopKeepsPageUpdates ==
  [][(spc = "save" /\ spc' = "idle" /\ wpc \notin {"idle", "collect"})
     => manifest'.pages = manifest.pages]_vars

\* C26: when the ensure step reports no missing id for a page (on a
\* registry whose ids are unique and stored under the list of their
\* prefix), every entity the page references holds each default asset type
\* of its kind.
C26_EnsuredHaveDefaultTypes ==
  [][(ensIds = {} /\ ensIds' # {} /\ ensMissing' = {}
      /\ C20_IdsUniqueAndPrefixed)
     => \A id \in ensIds' :
          LET l == IdxList(reg', id)
              a == reg'[l][GetById(reg'[l], id)].reference_assets
              w == DEFAULT_TYPES(KindOfList(l))
          IN \A k \in 1..Len(w) : HasType(a, w[k])]_vars

\* C27: within one generate_ref_assets call on a character that generates
\* both a portrait and a turnaround, every portrait image call comes before
\* every turnaround image call, whatever order the request listed them in.
C27_PortraitBeforeTurnaround ==
  (genList = "characters" /\ {"portrait", "turnaround"} \subseteq genDone)
    => \A i, j \in 1..Len(genCalls) :
         (genCalls[i] = "portrait" /\ genCalls[j] = "turnaround") => i < j
C27_Witness ==
  /\ genList = "characters"
  /\ genAsked = <<"turnaround", "portrait">>
  /\ genDone = {"portrait", "turnaround"}
  /\ genCalls = <<"portrait", "turnaround">>

\* A step in which clean_lookbook_assets runs.
CleanRuns == cleanReq = NoClean /\ cleanReq' # NoClean

EmptyRequested(r, q) ==
  {q.ids[k] : k \in 1..Len(q.ids)}
    \cap {id \in RegIds : EntityById(r, id) # "" /\ ~HasAnyRefAssets(r, id)}

\* C24: after a real clean call with prune_empty_entities that names types
\* to remove, no requested entity is left in the registry without reference assets, and the
\* entities the call removed are those the same request reports as "would
\* remove" under dry_run.
C24_EmptiedEntitiesPruned ==
  [][(CleanRuns /\ ~cleanReq'.dry_run /\ cleanReq'.prune_empty_entities
      /\ DesiredTypes(cleanReq') # {}
      /\ C20_IdsUniqueAndPrefixed)
     => /\ EmptyRequested(reg', cleanReq') = {}
        /\ cleanOut'.removed =
             clean_lookbook_assets(reg, lbFiles, lbObjects,
                                   [cleanReq' EXCEPT !.dry_run = TRUE]).would
    ]_vars

\* The ids the returned script uses that the registry did not know.
UsedNotKnown ==
  CollectIds(script, Len(script.pages))
    \ (scKnown.characters \cup scKnown.locations \cup scKnown.props)

\* The ids of the returned lookbook_delta.
DeltaIds ==
  SeqSet(script.lookbook_delta.characters_to_add)
    \cup SeqSet(script.lookbook_delta.locations_to_add)
    \cup SeqSet(script.lookbook_delta.props_to_add)

\* The usage of id in the returned script meets the threshold of its kind.
MeetsThreshold(id) ==
  CASE DetectKind(id) = "character" -> CharUsed(script, id)
    [] DetectKind(id) = "location" -> LocUsed(script, id)
    [] OTHER -> PropUsed(script, id)

\* C21: when generate_full_script has returned, an id used in the pages
\* and not known to the registry is in lookbook_delta exactly when its
\* usage meets the threshold of its kind, and no delta id is below it.
C21_DeltaIffThreshold ==
  scPc = "done"
    => /\ \A id \in UsedNotKnown : id \in DeltaIds <=> MeetsThreshold(id)
       /\ \A id \in DeltaIds : MeetsThreshold(id)

\* C30: when generate_full_script has returned, every id a page or a panel
\* of the script names is known to the registry or is in lookbook_delta.
C30_PagesReferenceKnownOrDelta ==
  scPc = "done"
    => CollectIds(script, Len(script.pages))
         \subseteq (scKnown.characters \cup scKnown.locations
                      \cup scKnown.props \cup DeltaIds)

\* The prompts whose generate_page returned a file name.
Generated == {i \in 1..lgN : lgState[i] = "collected_saved"}

\* C25: generate_pages returns the names of the generated pages in prompt
\* order, leaving out the pages whose generate_page returned None, whatever
\* max_workers is and in whatever order the threads finish.
C25_ReturnsGeneratedInPromptOrder ==
  lgPc = "returned"
    => /\ {lgReturned[k] : k \in 1..Len(lgReturned)}
            = {PageName(i) : i \in Generated}
       /\ \A j, k \in 1..Len(lgReturned) :
            j < k => lgReturned[j] < lgReturned[k]
C25_Witness ==
  /\ lgPc = "returned"
  /\ max_workers = 2
  /\ lgOrder = <<2, 3, 1>>
  /\ lgState[2] = "collected_none"
  /\ lgReturned = <<PageName(1), PageName(3)>>

====
